---- MODULE Spec2Model ----
(***************************************************************************)
(* PADMA: the diabetic-foot-ulcer intake form of src/PADMA.py.             *)
(*                                                                         *)
(* The script main() is re-executed from its first line on every user      *)
(* interaction.  The widget values are the session's state; everything     *)
(* else (missing, processed_image, predictions, what is drawn below the    *)
(* submit button) is local to one execution.  One execution is modelled    *)
(* as the steps  OnRun -> OpenAndProcess -> Post -> Reply -> Render,       *)
(* the blocking HTTP exchange being the only point where the environment   *)
(* (the prediction backend) chooses something.                             *)
(***************************************************************************)
EXTENDS Integers, Sequences, FiniteSets, TLC

\* ------------------------------------------------------------------ bounds
MaxYears == 1      \* "Years with Diabetes" ranges over 0..MaxYears
MaxLen   == 2      \* longest labels / probabilities array of a reply

\* ------------------------------------------------------- program constants
AgeMin  == 1       \* st.number_input("Age *", min_value=1, ...)
AgeMax  == 120     \* st.number_input("Age *", ..., max_value=120, ...)
YearsMin == 0      \* st.number_input("Years with Diabetes *", min_value=0, ...)
ImgSide == 224     \* image.convert("RGB").resize((224, 224))

PREDICT_URL == "https://backendapi-ctgr.onrender.com/predict"

GenderOptions == <<"Select Gender", "Male", "Female", "Other">>
RadioOptions  == <<"Yes", "No">>
UploadTypes   == {"jpg", "jpeg", "png"}

\* --------------------------------------------------------- widget domains
\* text_input returns "" until the user types something
TextValues == {"", "x"}
\* date_input defaults to today's date and always returns a date
DateValues == {"today", "1980-05-17"}
\* number_input returns an int inside [min_value, max_value]; default = min
AgeValues  == {AgeMin, AgeMax}
YearsValues == YearsMin..MaxYears

\* Python values of a name that holds an int, may hold None, or is not bound
PyInt(n)   == [st |-> "int", v |-> n]
PyNone     == [st |-> "None", v |-> 0]
PyUnbound  == [st |-> "unbound", v |-> 0]

\* uploaded files: name, extension, and what Pillow makes of the bytes.
\* The uploader filters on the extension only, so a file whose bytes are not
\* an image passes it.
Files == {
  [name |-> "foot.png",    ext |-> "png", decodable |-> TRUE,  mode |-> "RGBA", w |-> 640, h |-> 480],
  [name |-> "wound.jpg",   ext |-> "jpg", decodable |-> TRUE,  mode |-> "RGB",  w |-> 224, h |-> 224],
  [name |-> "notes.png",   ext |-> "png", decodable |-> FALSE, mode |-> "",     w |-> 0,   h |-> 0] }
NoFile == [name |-> "None", ext |-> "", decodable |-> FALSE, mode |-> "", w |-> 0, h |-> 0]

\* ---------------------------------------------------------------- images
NoImage == [src |-> "None", mode |-> "", w |-> 0, h |-> 0, order |-> "", clahe |-> <<FALSE, FALSE, FALSE>>]

\* Image.open(uploaded_file), for a decodable file
ImageOpen(file) ==
  [src |-> file.name, mode |-> file.mode, w |-> file.w, h |-> file.h,
   order |-> "RGB", clahe |-> <<FALSE, FALSE, FALSE>>]

\* image.convert("RGB")
ConvertRGB(img) == [img EXCEPT !.mode = "RGB"]
\* .resize((224, 224))
Resize(img) == [img EXCEPT !.w = ImgSide, !.h = ImgSide]
\* cv2.cvtColor(img_np, cv2.COLOR_RGB2BGR) and cv2.COLOR_BGR2RGB
CvtColor(img, from, to) == IF img.order = from THEN [img EXCEPT !.order = to] ELSE img
\* clahe.apply on each of the three planes of cv2.split, then cv2.merge
ClaheApply(img) == [img EXCEPT !.clahe = <<TRUE, TRUE, TRUE>>]

\* variant: the two results are returned in the other order
process_image_swapped(image) ==
  LET resized   == Resize(ConvertRGB(image))
      processed == CvtColor(ClaheApply(CvtColor(resized, "RGB", "BGR")), "BGR", "RGB")
  IN  <<processed, resized>>

\* process_image(image): the pair (resized original, equalised image)
process_image(image) ==
  LET resized   == Resize(ConvertRGB(image))
      bgr       == CvtColor(resized, "RGB", "BGR")
      equalised == ClaheApply(bgr)
      processed == CvtColor(equalised, "BGR", "RGB")
  IN  <<resized, processed>>

\* image.save(buffer, format="PNG"); base64.b64encode(...).decode("utf-8")
PngEncode(img)   == [format |-> "PNG", pixels |-> img]
B64Encode(bytes) == [encoding |-> "base64", of |-> bytes]
\* the request predict_image issues
PredictRequest(image) ==
  [method |-> "POST", url |-> PREDICT_URL, json |-> [file |-> B64Encode(PngEncode(image))]]

\* ------------------------------------------------------ session (widgets)
VARIABLES full_name, dob, age, email, gender, contact,
          diabetes, diabetes_years, high_bp, medications, uploaded_file,
          run,     \* the current execution of main(): its locals and its output
          fresh,   \* the same execution started in a session with no history
          prior    \* how the latest earlier submission of the session ended

widgets == <<full_name, dob, age, email, gender, contact,
             diabetes, diabetes_years, high_bp, medications, uploaded_file>>
vars == <<full_name, dob, age, email, gender, contact,
          diabetes, diabetes_years, high_bp, medications, uploaded_file, run, fresh, prior>>

\* the values main() reads from the widgets (lines 110-131)
Form ==
  [full_name |-> full_name, dob |-> dob, age |-> age, email |-> email,
   gender |-> gender, contact |-> contact, diabetes |-> diabetes,
   diabetes_years |-> diabetes_years, high_bp |-> high_bp,
   medications |-> medications, uploaded_file |-> uploaded_file]

\* ------------------------------------------------------------- validation
\* reading diabetes_years where line 124 never bound it raises NameError;
\* `and` evaluates its right operand only when the left one is true
YearsNameError(f) == f.diabetes = "Yes" /\ f.diabetes_years.st = "unbound"
\* variant: `not diabetes_years` in place of `diabetes_years is None`
YearsIsFalsy(f) ==
  f.diabetes = "Yes" /\ (f.diabetes_years.st = "None" \/ f.diabetes_years.v = 0)
YearsIsNone(f)    == f.diabetes = "Yes" /\ f.diabetes_years.st = "None"

AddIf(cond, list, name) == IF cond THEN Append(list, name) ELSE list

\* variant: the blood-pressure radio is not checked
ValidateNoBp(f) ==
  LET m1  == AddIf(f.full_name = "", <<>>, "Full Name")
      m2  == AddIf(f.email = "", m1, "Email")
      m3  == AddIf(f.dob = "None", m2, "Date of Birth")
      m4  == AddIf(f.age = 0, m3, "Age")
      m5  == AddIf(f.gender = "Select Gender", m4, "Gender")
      m6  == AddIf(f.contact = "", m5, "Contact Number")
      m7  == AddIf(f.diabetes = "None", m6, "Diabetes Status")
      m8  == AddIf(YearsIsNone(f), m7, "Years with Diabetes")
      m10 == AddIf(f.uploaded_file.name = "None", m8, "Image Upload")
  IN  [crash |-> YearsNameError(f), missing |-> m10]

\* lines 135-145, in the order of the source
Validate(f) ==
  LET m0  == <<>>
      m1  == AddIf(f.full_name = "", m0, "Full Name")
      m2  == AddIf(f.email = "", m1, "Email")
      m3  == AddIf(f.dob = "None", m2, "Date of Birth")
      m4  == AddIf(f.age = 0, m3, "Age")
      m5  == AddIf(f.gender = "Select Gender", m4, "Gender")
      m6  == AddIf(f.contact = "", m5, "Contact Number")
      m7  == AddIf(f.diabetes = "None", m6, "Diabetes Status")
      m8  == AddIf(YearsIsNone(f), m7, "Years with Diabetes")
      m9  == AddIf(f.high_bp = "None", m8, "Blood Pressure Status")
      m10 == AddIf(f.uploaded_file.name = "None", m9, "Image Upload")
  IN  [crash |-> YearsNameError(f), missing |-> m10]

\* ------------------------------------------------- what is drawn on screen
Blank == [kind |-> "", text |-> "", names |-> <<>>, label |-> "", prob |-> 0, img |-> NoImage]

ValidationError(missing) ==
  [Blank EXCEPT !.kind = "error",
                !.text = "Please complete the following required fields",
                !.names = missing]
ProcessedImageMsg(img) ==
  [Blank EXCEPT !.kind = "image", !.text = "Processed Image", !.img = img]
ApiError(e) ==
  [Blank EXCEPT !.kind = "error", !.text = "Prediction API Error", !.names = <<e>>]
AnalysisComplete == [Blank EXCEPT !.kind = "success", !.text = "Analysis Complete!"]
ResultsHeader    == [Blank EXCEPT !.kind = "subheader", !.text = "Results:"]
\* f"<b>{label}</b>: {float(prob):.2f}%"
ResultLine(label, prob) ==
  [Blank EXCEPT !.kind = "markdown", !.text = "<b>%s</b>: %.2f%%", !.label = label, !.prob = prob]
BackendError(e) ==
  [Blank EXCEPT !.kind = "error", !.text = "Backend Error", !.names = <<e>>]
UnexpectedResponse ==
  [Blank EXCEPT !.kind = "error", !.text = "Unexpected response from backend."]
\* an exception that nothing catches is reported by the framework
Uncaught(exc) == [Blank EXCEPT !.kind = "exception", !.text = exc]

\* ----------------------------------------------------- backend's replies
Labels == <<"Grade 1", "Grade 2", "Grade 3", "Grade 4">>
Num(v)  == [num |-> TRUE,  v |-> v]
NotNum  == [num |-> FALSE, v |-> 0]

\* labels arrays: the first n grades
LabelArrays == { SubSeq(Labels, 1, n) : n \in 0..MaxLen }
\* probabilities arrays: m entries, entry i is the number 10*i, except that
\* entry `bad` (if any) is something float() rejects
ProbArrays ==
  { [i \in 1..m |-> IF i = b THEN NotNum ELSE Num(10 * i)] : m \in 0..MaxLen, b \in 0..MaxLen }

NoJson == [type |-> "None", has |-> {}, labels |-> <<>>, probabilities |-> <<>>, error |-> "", n |-> 0]
Unbound == [NoJson EXCEPT !.type = "unbound"]

JsonKeySets == SUBSET {"labels", "probabilities", "error"} \cup {{"other"}}
JsonObjects ==
  { [type |-> "object", has |-> ks,
     labels |-> IF "labels" \in ks THEN ls ELSE <<>>,
     probabilities |-> IF "probabilities" \in ks THEN ps ELSE <<>>,
     error |-> IF "error" \in ks THEN "model unavailable" ELSE "",
     n |-> 0] : ks \in JsonKeySets, ls \in LabelArrays, ps \in ProbArrays }
JsonNumbers == { [NoJson EXCEPT !.type = "number", !.n = k] : k \in {0, 5} }
\* what response.json() can return: an object, or another JSON value
\* (null parses to None)
JsonValues == JsonObjects \cup JsonNumbers \cup {NoJson}

Failures == {"ConnectionError", "HTTPError", "JSONDecodeError"}
Replies ==
  { [outcome |-> e, json |-> NoJson] : e \in Failures }
  \cup { [outcome |-> "ok", json |-> j] : j \in JsonValues }
NoReply == [outcome |-> "none", json |-> NoJson]

\* Python truth value of `predictions`
Truthy(p) ==
  \/ p.type = "object" /\ p.has # {}
  \/ p.type = "number" /\ p.n # 0

\* ------------------------------------------------- one execution of main()
\* pc: "idle"   the script has ended and the page waits for the user
\*     "open"   inside the spinner block, before Image.open (line 151)
\*     "post"   inside predict_image, before requests.post (line 84)
\*     "await"  blocked in requests.post
\*     "render" predict_image has returned (line 155)
InitRun ==
  [pc |-> "idle", button |-> FALSE, missing |-> <<>>, spinner |-> FALSE,
   raised |-> FALSE, screen |-> <<>>, requests |-> <<>>,
   processed_image |-> NoImage, reply |-> NoReply, predictions |-> Unbound]

\* variant: what the previous execution drew stays on the page
ScriptStartKeep(prev, pressed) ==
  [prev EXCEPT !.pc = "idle", !.button = pressed, !.missing = <<>>,
               !.spinner = FALSE, !.raised = FALSE,
               !.requests = <<>>, !.processed_image = NoImage,
               !.reply = NoReply, !.predictions = Unbound]

\* main() is called anew: its locals are unbound, the page below the button
\* is redrawn from nothing, and st.button tells whether this execution was
\* started by the submit button
ScriptStart(prev, pressed) ==
  [prev EXCEPT !.pc = "idle", !.button = pressed, !.missing = <<>>,
               !.spinner = FALSE, !.raised = FALSE, !.screen = <<>>,
               !.requests = <<>>, !.processed_image = NoImage,
               !.reply = NoReply, !.predictions = Unbound]

\* variant: the error is shown but processing goes on (`else` missing)
GateOpen(s, f) ==
  LET v == Validate(f)
  IN  IF v.missing # <<>>
        THEN [s EXCEPT !.missing = v.missing,
                       !.screen = Append(@, ValidationError(v.missing)),
                       !.spinner = TRUE, !.pc = "open"]
        ELSE [s EXCEPT !.spinner = TRUE, !.pc = "open"]

\* lines 134-150: the submit branch up to the entry of the spinner block
Gate(s, f) ==
  LET v == Validate(f)
  IN  IF v.crash
        THEN [s EXCEPT !.raised = TRUE, !.screen = Append(@, Uncaught("NameError"))]
      ELSE IF v.missing # <<>>
        THEN [s EXCEPT !.missing = v.missing,
                       !.screen = Append(@, ValidationError(v.missing))]
      ELSE [s EXCEPT !.spinner = TRUE, !.pc = "open"]

\* lines 92-150
OnRun(prev, f, pressed) ==
  IF pressed THEN Gate(ScriptStart(prev, pressed), f) ELSE ScriptStart(prev, pressed)

\* variant: the spinner is stopped by a statement at the end of the block,
\* which an exception skips
ExitSpinnerLeak(r) ==
  IF r.raised THEN [r EXCEPT !.pc = "idle"] ELSE [r EXCEPT !.spinner = FALSE, !.pc = "idle"]

\* leaving the `with st.spinner(...)` block, normally or by an exception
ExitSpinner(r) == [r EXCEPT !.spinner = FALSE, !.pc = "idle"]

\* lines 151-153
OpenAndProcess(r, f) ==
  IF ~f.uploaded_file.decodable
    THEN ExitSpinner([r EXCEPT !.raised = TRUE,
                               !.screen = Append(@, Uncaught("UnidentifiedImageError"))])
    ELSE LET image  == ImageOpen(f.uploaded_file)
             result == process_image(image)
             processed_image == result[2]
         IN  [r EXCEPT !.processed_image = processed_image,
                       !.screen = Append(@, ProcessedImageMsg(processed_image)),
                       !.pc = "post"]

\* lines 154 and 80-84: predict_image(processed_image) sends its request
Post(r) ==
  [r EXCEPT !.requests = Append(@, PredictRequest(r.processed_image)), !.pc = "await"]

\* lines 84-89: the exchange ends; predict_image returns
predict_image(r, reply) ==
  IF reply.outcome \in Failures
    THEN [r EXCEPT !.reply = reply, !.predictions = NoJson,
                   !.screen = Append(@, ApiError(reply.outcome)), !.pc = "render"]
    ELSE [r EXCEPT !.reply = reply, !.predictions = reply.json, !.pc = "render"]

\* float(prob)
FloatOk(prob) == prob.num

\* variant: every label is paired with the first probability
RECURSIVE ZipLoopSkew(_, _, _, _)
ZipLoopSkew(labels, probs, i, r) ==
  IF i > Len(labels) \/ i > Len(probs) THEN r
  ELSE IF ~FloatOk(probs[i])
    THEN [r EXCEPT !.raised = TRUE, !.screen = Append(@, Uncaught("ValueError"))]
  ELSE ZipLoopSkew(labels, probs, i + 1,
                   [r EXCEPT !.screen = Append(@, ResultLine(labels[i], probs[1].v))])

\* lines 159-165: for label, prob in zip(labels, probabilities)
RECURSIVE ZipLoop(_, _, _, _)
ZipLoop(labels, probs, i, r) ==
  IF i > Len(labels) \/ i > Len(probs) THEN r
  ELSE IF ~FloatOk(probs[i])
    THEN [r EXCEPT !.raised = TRUE, !.screen = Append(@, Uncaught("ValueError"))]
  ELSE ZipLoop(labels, probs, i + 1,
               [r EXCEPT !.screen = Append(@, ResultLine(labels[i], probs[i].v))])

\* variant: the final `else` belongs to `if predictions:`
RenderBodyDangling(r) ==
  LET p == r.predictions
  IN  IF ~Truthy(p) THEN [r EXCEPT !.screen = Append(@, UnexpectedResponse)]
      ELSE IF p.type # "object"
        THEN [r EXCEPT !.raised = TRUE, !.screen = Append(@, Uncaught("TypeError"))]
      ELSE IF "probabilities" \in p.has /\ "labels" \in p.has
        THEN ZipLoop(p.labels, p.probabilities, 1,
                     [r EXCEPT !.screen = @ \o <<AnalysisComplete, ResultsHeader>>])
      ELSE IF "error" \in p.has
        THEN [r EXCEPT !.screen = Append(@, BackendError(p.error))]
      ELSE r

\* lines 155-169
RenderBody(r) ==
  LET p == r.predictions
  IN  IF ~Truthy(p) THEN r
      ELSE IF p.type # "object"
        THEN [r EXCEPT !.raised = TRUE, !.screen = Append(@, Uncaught("TypeError"))]
      ELSE IF "probabilities" \in p.has /\ "labels" \in p.has
        THEN ZipLoop(p.labels, p.probabilities, 1,
                     [r EXCEPT !.screen = @ \o <<AnalysisComplete, ResultsHeader>>])
      ELSE IF "error" \in p.has
        THEN [r EXCEPT !.screen = Append(@, BackendError(p.error))]
      ELSE [r EXCEPT !.screen = Append(@, UnexpectedResponse)]

Render(r) == ExitSpinner(RenderBody(r))

\* ------------------------------------------------------------------- Init
Init ==
  /\ full_name = "" /\ email = "" /\ contact = "" /\ medications = ""
  /\ dob = "today"
  /\ age = AgeMin
  /\ gender = GenderOptions[1]
  /\ diabetes = "None" /\ high_bp = "None"
  /\ diabetes_years = PyUnbound
  /\ uploaded_file = NoFile
  /\ run = InitRun
  /\ fresh = InitRun
  /\ prior = "none"

\* --------------------------------------------------------------- actions
\* what the execution that is about to be replaced leaves behind, if it was
\* a submission
Ended(r) ==
  IF r.missing # <<>> THEN "blocked"
  ELSE IF \E i \in DOMAIN r.screen : r.screen[i] = AnalysisComplete THEN "results"
  ELSE "failed"
Remember(r, old) == IF r.button THEN Ended(r) ELSE old

\* a widget interaction re-executes the script without the button pressed
Rerun ==
  /\ run' = OnRun(run, Form', FALSE)
  /\ fresh' = OnRun(InitRun, Form', FALSE)
  /\ prior' = Remember(run, prior)

SetFullName ==
  /\ run.pc = "idle"
  /\ \E v \in TextValues \ {full_name} : full_name' = v
  /\ UNCHANGED <<dob, age, email, gender, contact, diabetes, diabetes_years,
                 high_bp, medications, uploaded_file>>
  /\ Rerun

SetDob ==
  /\ run.pc = "idle"
  /\ \E v \in DateValues \ {dob} : dob' = v
  /\ UNCHANGED <<full_name, age, email, gender, contact, diabetes, diabetes_years,
                 high_bp, medications, uploaded_file>>
  /\ Rerun

SetAge ==
  /\ run.pc = "idle"
  /\ \E v \in AgeValues \ {age} : age' = v
  /\ UNCHANGED <<full_name, dob, email, gender, contact, diabetes, diabetes_years,
                 high_bp, medications, uploaded_file>>
  /\ Rerun

SetEmail ==
  /\ run.pc = "idle"
  /\ \E v \in TextValues \ {email} : email' = v
  /\ UNCHANGED <<full_name, dob, age, gender, contact, diabetes, diabetes_years,
                 high_bp, medications, uploaded_file>>
  /\ Rerun

SetGender ==
  /\ run.pc = "idle"
  /\ \E i \in DOMAIN GenderOptions : GenderOptions[i] # gender /\ gender' = GenderOptions[i]
  /\ UNCHANGED <<full_name, dob, age, email, contact, diabetes, diabetes_years,
                 high_bp, medications, uploaded_file>>
  /\ Rerun

SetContact ==
  /\ run.pc = "idle"
  /\ \E v \in TextValues \ {contact} : contact' = v
  /\ UNCHANGED <<full_name, dob, age, email, gender, diabetes, diabetes_years,
                 high_bp, medications, uploaded_file>>
  /\ Rerun

\* lines 122-124: the years input exists, and diabetes_years is bound, only
\* in an execution where the radio says "Yes"; a new input holds min_value
SetDiabetes ==
  /\ run.pc = "idle"
  /\ \E i \in DOMAIN RadioOptions :
        /\ RadioOptions[i] # diabetes
        /\ diabetes' = RadioOptions[i]
        /\ diabetes_years' = IF RadioOptions[i] = "Yes" THEN PyInt(YearsMin) ELSE PyUnbound
  /\ UNCHANGED <<full_name, dob, age, email, gender, contact,
                 high_bp, medications, uploaded_file>>
  /\ Rerun

SetDiabetesYears ==
  /\ run.pc = "idle"
  /\ diabetes = "Yes"
  /\ \E n \in YearsValues : PyInt(n) # diabetes_years /\ diabetes_years' = PyInt(n)
  /\ UNCHANGED <<full_name, dob, age, email, gender, contact, diabetes,
                 high_bp, medications, uploaded_file>>
  /\ Rerun

SetHighBp ==
  /\ run.pc = "idle"
  /\ \E i \in DOMAIN RadioOptions : RadioOptions[i] # high_bp /\ high_bp' = RadioOptions[i]
  /\ UNCHANGED <<full_name, dob, age, email, gender, contact, diabetes, diabetes_years,
                 medications, uploaded_file>>
  /\ Rerun

SetMedications ==
  /\ run.pc = "idle"
  /\ \E v \in TextValues \ {medications} : medications' = v
  /\ UNCHANGED <<full_name, dob, age, email, gender, contact, diabetes, diabetes_years,
                 high_bp, uploaded_file>>
  /\ Rerun

\* line 131: the uploader accepts a file by its extension, or is emptied
SetUpload ==
  /\ run.pc = "idle"
  /\ \E file \in {g \in Files : g.ext \in UploadTypes} \cup {NoFile} :
        file # uploaded_file /\ uploaded_file' = file
  /\ UNCHANGED <<full_name, dob, age, email, gender, contact, diabetes, diabetes_years,
                 high_bp, medications>>
  /\ Rerun

\* line 134: the button is pressed; the script runs up to the spinner block
Submit ==
  /\ run.pc = "idle"
  /\ run' = OnRun(run, Form, TRUE)
  /\ fresh' = OnRun(InitRun, Form, TRUE)
  /\ prior' = Remember(run, prior)
  /\ UNCHANGED widgets

DoOpenAndProcess ==
  /\ run.pc = "open"
  /\ run' = OpenAndProcess(run, Form)
  /\ fresh' = OpenAndProcess(fresh, Form)
  /\ UNCHANGED <<widgets, prior>>

DoPost ==
  /\ run.pc = "post"
  /\ run' = Post(run)
  /\ fresh' = Post(fresh)
  /\ UNCHANGED <<widgets, prior>>

\* the backend, or the network, decides how the exchange ends
DoReply ==
  /\ run.pc = "await"
  /\ \E reply \in Replies :
        /\ run' = predict_image(run, reply)
        /\ fresh' = predict_image(fresh, reply)
  /\ UNCHANGED <<widgets, prior>>

DoRender ==
  /\ run.pc = "render"
  /\ run' = Render(run)
  /\ fresh' = Render(fresh)
  /\ UNCHANGED <<widgets, prior>>

Next ==
  \/ SetFullName \/ SetDob \/ SetAge \/ SetEmail \/ SetGender \/ SetContact
  \/ SetDiabetes \/ SetDiabetesYears \/ SetHighBp \/ SetMedications \/ SetUpload
  \/ Submit \/ DoOpenAndProcess \/ DoPost \/ DoReply \/ DoRender

Spec == Init /\ [][Next]_vars

\* the script keeps running once started, and the blocking exchange ends
\* (with a reply or with a transport error)
FairSpec ==
  Spec /\ WF_vars(DoOpenAndProcess) /\ WF_vars(DoPost) /\ WF_vars(DoReply) /\ WF_vars(DoRender)

\* ===================================================== properties checked
Range(seq) == { seq[i] : i \in DOMAIN seq }
OnScreen(m) == \E i \in DOMAIN run.screen : run.screen[i] = m
TextOnScreen(t) == \E i \in DOMAIN run.screen : run.screen[i].text = t
CountText(t) == Cardinality({ i \in DOMAIN run.screen : run.screen[i].text = t })
IsLine(m) == m.kind = "markdown"
Lines == SelectSeq(run.screen, IsLine)
Min(a, b) == IF a < b THEN a ELSE b

\* the execution on the page was started by the submit button / has ended
Submitted == run.button
Finished  == run.button /\ run.pc = "idle"

\* the unset required fields, as section 4.1 of the specification lists them
RequiredFields ==
  {"Full Name", "Email", "Date of Birth", "Age", "Gender", "Contact Number",
   "Diabetes Status", "Years with Diabetes", "Blood Pressure Status", "Image Upload"}
IsUnset(name) ==
  CASE name = "Full Name"             -> full_name = ""
    [] name = "Email"                 -> email = ""
    [] name = "Contact Number"        -> contact = ""
    [] name = "Date of Birth"         -> dob = "None"
    [] name = "Age"                   -> age = 0
    [] name = "Gender"                -> gender = "Select Gender"
    [] name = "Diabetes Status"       -> diabetes = "None"
    [] name = "Blood Pressure Status" -> high_bp = "None"
    [] name = "Years with Diabetes"   -> diabetes = "Yes" /\ diabetes_years.st # "int"
    [] name = "Image Upload"          -> uploaded_file = NoFile
UnsetFields == { name \in RequiredFields : IsUnset(name) }

\* C1: a submission with a required field missing is blocked: nothing is
\* processed, no request is sent, no result is drawn, and the page shows
\* exactly one error, the one that lists the missing fields.
C1_BlockedSubmission ==
  (Submitted /\ UnsetFields # {}) =>
     /\ run.pc = "idle" /\ ~run.spinner /\ ~run.raised
     /\ run.processed_image = NoImage
     /\ run.requests = <<>>
     /\ run.reply = NoReply /\ run.predictions = Unbound
     /\ Len(run.screen) = 1
     /\ run.screen[1] = ValidationError(run.missing)
     /\ Range(run.missing) = UnsetFields

C1_Witness ==
  /\ Finished /\ Cardinality(UnsetFields) >= 2
  /\ uploaded_file # NoFile /\ full_name = "x"
  /\ prior = "results"

\* C2: at a submission the validator's list names exactly the unset
\* required fields, each once.
C2_MissingExact ==
  Submitted =>
     /\ Range(Validate(Form).missing) = UnsetFields
     /\ Len(Validate(Form).missing) = Cardinality(UnsetFields)
     /\ (UnsetFields # {} => run.missing = Validate(Form).missing)

C2_Witness ==
  /\ Finished
  /\ UnsetFields = {"Gender", "Blood Pressure Status", "Image Upload"}
  /\ diabetes = "Yes"

\* the request of the current submission, when there is one
TheRequest == run.requests[1]
RequestCarriesProcessedUpload ==
  LET body == TheRequest.json.file
      img  == body.of.pixels
  IN  /\ TheRequest.method = "POST" /\ TheRequest.url = PREDICT_URL
      /\ body.encoding = "base64"
      /\ body.of.format = "PNG"
      /\ img.src = uploaded_file.name
      /\ img.mode = "RGB" /\ img.order = "RGB"
      /\ img.w = ImgSide /\ img.h = ImgSide
      /\ img.clahe = <<TRUE, TRUE, TRUE>>
      /\ img # Resize(ConvertRGB(ImageOpen(uploaded_file)))

\* C3 as stated: every valid submission issues exactly one request, whose
\* file is the base64 of the PNG of the processed image.
C3_Original ==
  (Finished /\ UnsetFields = {}) =>
     Len(run.requests) = 1 /\ RequestCarriesProcessedUpload

\* C3 amended: a valid submission issues at most one request; it issues
\* exactly one when the uploaded file decodes as an image and none when it
\* does not; the request's file is the base64 of the PNG of the processed
\* image of the current upload.
C3_Amended ==
  /\ Len(run.requests) <= 1
  /\ (Finished /\ UnsetFields = {}) =>
        (IF uploaded_file.decodable THEN Len(run.requests) = 1 ELSE run.requests = <<>>)
  /\ run.requests # <<>> =>
        (Submitted /\ UnsetFields = {} /\ RequestCarriesProcessedUpload)

C3_Witness ==
  /\ Finished /\ UnsetFields = {}
  /\ uploaded_file.name = "foot.png"
  /\ Len(run.requests) = 1
  /\ run.reply.outcome = "ok"

\* the reply of the current submission was a parsed JSON object
GotObject == Finished /\ run.reply.outcome = "ok" /\ run.reply.json.type = "object"
HasPair(j) == "probabilities" \in j.has /\ "labels" \in j.has
HasError(j) == "error" \in j.has

\* C4: a successful reply that holds neither the labels/probabilities pair
\* nor an error key, the empty object included, is answered with the
\* generic unexpected-response message.
C4_Claim ==
  (GotObject /\ ~HasPair(run.reply.json) /\ ~HasError(run.reply.json)) =>
     OnScreen(UnexpectedResponse)

\* the three render cases
ShowsResults  == OnScreen(AnalysisComplete) /\ OnScreen(ResultsHeader)
ShowsBackendError(j) == OnScreen(BackendError(j.error))
ShowsUnexpected == OnScreen(UnexpectedResponse)

\* C5: every parsed reply is rendered by exactly one of the three cases,
\* chosen in priority order: pair, else error, else unexpected.
C5_Claim ==
  GotObject =>
    LET j == run.reply.json
    IN  /\ HasPair(j) =>
             (ShowsResults /\ ~TextOnScreen("Backend Error") /\ ~ShowsUnexpected)
        /\ (~HasPair(j) /\ HasError(j)) =>
             (ShowsBackendError(j) /\ ~OnScreen(AnalysisComplete) /\ Lines = <<>>
              /\ ~ShowsUnexpected)
        /\ (~HasPair(j) /\ ~HasError(j)) =>
             (ShowsUnexpected /\ ~OnScreen(AnalysisComplete) /\ Lines = <<>>
              /\ ~TextOnScreen("Backend Error"))

\* C6: when the exchange fails, predict_image shows one "Prediction API
\* Error" and returns None; nothing else is rendered for the reply and the
\* request is not sent again.
C6_ApiFailure ==
  (run.reply.outcome \in Failures) =>
     /\ run.predictions = NoJson
     /\ CountText("Prediction API Error") = 1
     /\ OnScreen(ApiError(run.reply.outcome))
     /\ Len(run.requests) = 1
     /\ ~run.raised
     /\ run.screen = <<ProcessedImageMsg(run.processed_image), ApiError(run.reply.outcome)>>

C6_Witness ==
  /\ Finished /\ run.reply.outcome = "HTTPError"
  /\ prior = "results"

\* C7: "Years with Diabetes" is reported missing exactly when diabetes is
\* "Yes" and no years value is set; when diabetes is "No" or unanswered the
\* years value does not exist, is not reported and neither blocks nor
\* crashes the submission.
C7_YearsRequired ==
  /\ (diabetes # "Yes") <=> (diabetes_years = PyUnbound)
  /\ Submitted =>
       /\ ("Years with Diabetes" \in Range(Validate(Form).missing))
             <=> (diabetes = "Yes" /\ diabetes_years.st # "int")
       /\ ~Validate(Form).crash /\ ~OnScreen(Uncaught("NameError"))
       /\ (diabetes # "Yes") =>
             /\ "Years with Diabetes" \notin Range(run.missing)
             /\ (UnsetFields \ {"Diabetes Status"} = {}) =>
                   Range(run.missing) \subseteq {"Diabetes Status"}
             /\ (UnsetFields = {} /\ run.pc = "idle" /\ uploaded_file.decodable) =>
                   Len(run.requests) = 1

C7_Witness ==
  /\ Finished /\ diabetes = "No" /\ diabetes_years = PyUnbound
  /\ UnsetFields = {} /\ Len(run.requests) = 1

\* render case 1 of the current submission
Case1 == GotObject /\ HasPair(run.reply.json)

\* C8 as stated: in case 1 every label is rendered once, with the
\* probability of the same index, in order, so that the number of lines is
\* the length of each array.
C8_Original ==
  Case1 =>
    LET j == run.reply.json
    IN  /\ Len(Lines) = Len(j.labels)
        /\ Len(Lines) = Len(j.probabilities)
        /\ \A i \in DOMAIN Lines :
              Lines[i].label = j.labels[i] /\ Lines[i].prob = j.probabilities[i].v

\* the indices rendered: those both arrays have, up to the first
\* probability that float() rejects
Shorter(j) == Min(Len(j.labels), Len(j.probabilities))
Convertible(j, k) == \A i \in 1..k : j.probabilities[i].num
Rendered(j) ==
  CHOOSE k \in 0..Shorter(j) :
     /\ Convertible(j, k)
     /\ (k < Shorter(j) => ~j.probabilities[k + 1].num)

\* C8 amended: in case 1 the lines are label[i] with probability[i] for
\* i = 1, 2, ... in increasing order, for the indices that both arrays have
\* and up to the first probability that is not a number; when the arrays
\* have the same length and every probability is a number, every label is
\* rendered exactly once.
C8_Amended ==
  Case1 =>
    LET j == run.reply.json
        k == Rendered(j)
    IN  /\ Len(Lines) = k
        /\ \A i \in 1..k :
              Lines[i] = ResultLine(j.labels[i], j.probabilities[i].v)
        /\ run.screen =
             <<ProcessedImageMsg(run.processed_image), AnalysisComplete, ResultsHeader>>
             \o Lines
             \o (IF k < Shorter(j) THEN <<Uncaught("ValueError")>> ELSE <<>>)
        /\ (Len(j.labels) = Len(j.probabilities) /\ Convertible(j, Len(j.probabilities)))
              => Len(Lines) = Len(j.labels)

C8_Witness ==
  /\ Case1
  /\ Len(run.reply.json.labels) = 2 /\ Len(run.reply.json.probabilities) = 2
  /\ Convertible(run.reply.json, 2)
  /\ Len(Lines) = 2

\* the spinner is up exactly while a valid submission is being processed
SpinnerScoped ==
  /\ run.spinner <=> (run.pc # "idle")
  /\ run.spinner => (Submitted /\ UnsetFields = {})
  /\ (Submitted /\ UnsetFields # {}) => ~run.spinner

\* C9: the spinner raised by a valid submission is cleared on every way
\* out of the processing block (render, API error, uncaught exception), and
\* a blocked submission never raises it.
C9_SpinnerCleared ==
  /\ []SpinnerScoped
  /\ (run.spinner ~> (~run.spinner /\ Finished))

C9_Witness ==
  /\ Finished /\ ~run.spinner /\ run.raised
  /\ OnScreen(Uncaught("UnidentifiedImageError"))
  /\ UnsetFields = {}

\* C10: a submission's outcome is the one the same field values and the
\* same reply produce in a session without history.
C10_Independent ==
  /\ run = fresh
  /\ (Finished /\ run.reply.outcome \in Failures) =>
        (~OnScreen(AnalysisComplete) /\ Lines = <<>>)

C10_Witness ==
  /\ Finished /\ prior = "results"
  /\ run.reply.outcome = "ok" /\ run.reply.json.has = {"other"}
  /\ OnScreen(UnexpectedResponse)

====
